---- MODULE Spec2Model ----
(***************************************************************************)
(* Dutch GhostWriter: the translations Pinia store (stores/translations.js *)
(* with the AI review functions), the IndexedDB storage service it calls   *)
(* (services/storage.js) and the review call of services/gemini.js.        *)
(*                                                                         *)
(* JavaScript runs one task at a time: the synchronous part of a call, up  *)
(* to its first await on IndexedDB or on the network, is one action; the   *)
(* code that runs when the awaited request completes, up to the next such  *)
(* await, is another.  Promise continuations are microtasks and are part   *)
(* of the action of the event that resolves them.                          *)
(*                                                                         *)
(* Conventions: JS null for an id is 0 (ids start at 1), JS null for a     *)
(* message is "" (all messages are non-empty), JS null for a translation   *)
(* is the record Null, array indexes are 1-based with 0 for "not found"    *)
(* (JS: 0-based and -1).  Text is a sequence of one-character strings.     *)
(***************************************************************************)
EXTENDS Integers, Sequences, FiniteSets, TLC

\* ------------------------------------------------------------------ bounds
MaxTranslations == 2    \* keys the object store may hand out
MaxSentences == 3       \* sentences in one translation
MaxSentenceId == 3      \* sentence ids handed out in one translation
MaxClock == 2           \* distinct timestamps
MaxPending == 2         \* asynchronous calls in flight at once
MaxCalls == 3           \* calls the presentation layer makes in one run

VARIABLES
    store,               \* IndexedDB object store 'translations': key -> record
    nextKey,             \* its autoIncrement key generator
    clock,               \* wall clock, in milliseconds since the first one
    apiKey,              \* localStorage 'dutchgw_api_key' is set
    translations,        \* ref([])
    currentTranslation,  \* ref(null)
    isLoading,           \* ref(false)
    isInitialized,       \* ref(false)
    reviewSentenceId,    \* ref(null)
    isReviewLoading,     \* ref(false)
    reviewError,         \* ref(null)
    opening,             \* initialize() calls awaiting initDB()
    requests,            \* IndexedDB requests not yet completed, oldest first
    fetches,             \* reviewTranslation calls awaiting the network
    event,               \* the step just taken: operation, how it ended, arguments
    calls,               \* calls the presentation layer has made so far
    serial               \* the presentation layer awaits each call before the next

vars == <<store, nextKey, clock, apiKey, translations, currentTranslation,
          isLoading, isInitialized, reviewSentenceId, isReviewLoading,
          reviewError, opening, requests, fetches, event, calls, serial>>

\* --------------------------------------------------------------- constants
Null == [null |-> TRUE]

NoError == ""

SentenceNotFound == "Sentence not found"

ApiKeyNotConfigured == "API key not configured. Please set up your API key in Settings."

StoreError == "store error"

UpstreamError == "upstream error"

NullDereference == "Cannot read properties of null (reading 'sentences')"

\* `Translation not found: ${id}`
TranslationNotFound(id) == "Translation not found: " \o ToString(id)

Whitespace == {" "}

\* ------------------------------------------------------------ input values
\* Values typed into a row's english or dutch field.
EditValues == {<<"a", ".">>}

\* Titles typed into the rename box (Sidebar.saveRename trims and skips empty).
NewTitles == {<<"t">>}

\* Texts submitted in the text dialog with the sentence list made from them.
Submissions ==
    { [text |-> <<"a">>, sentences |-> << >>],
      [text |-> <<"a", ".">>, sentences |-> << <<"a", ".">> >>],
      [text |-> <<"a", ".", " ", "b", ".">>,
       sentences |-> << <<"a", ".">>, <<"b", ".">> >>] }

\* What the model answers to a review prompt ('' when no part carries text).
ReviewContents == {<<"r">>}

Fields == {"english", "dutch"}

SentenceIds == 1..MaxSentenceId

TranslationIds == 1..MaxTranslations

\* ----------------------------------------------------------- array helpers
\* Array.prototype.findIndex(s => s.id === id): first match, 0 when none.
FindIndex(arr, id) ==
    IF \E i \in 1..Len(arr) : arr[i].id = id
    THEN CHOOSE i \in 1..Len(arr) :
            arr[i].id = id /\ \A j \in 1..(i - 1) : arr[j].id # id
    ELSE 0

\* Array.prototype.filter(s => s.id !== id)
FilterOutId(arr, id) == SelectSeq(arr, LAMBDA s : s.id # id)

\* arr.splice(index, 0, item) with a 0-based JS index = items kept in front
SpliceIn(arr, index, item) ==
    SubSeq(arr, 1, index) \o <<item>> \o SubSeq(arr, index + 1, Len(arr))

\* arr.splice(index, 1) with a 1-based index
SpliceOut(arr, index) ==
    SubSeq(arr, 1, index - 1) \o SubSeq(arr, index + 1, Len(arr))

\* arr.unshift(item)
Unshift(arr, item) == <<item>> \o arr

\* Math.max(...sentences.map(s => s.id), 0)
MaxId(arr) ==
    IF Len(arr) = 0 THEN 0
    ELSE CHOOSE m \in {arr[i].id : i \in 1..Len(arr)} \cup {0} :
            \A i \in 1..Len(arr) : arr[i].id <= m

\* { ...existing, ...updates }
Spread(existing, updates) ==
    [k \in DOMAIN existing \cup DOMAIN updates |->
        IF k \in DOMAIN updates THEN updates[k] ELSE existing[k]]

\* delete obj[field]
DeleteField(obj, field) == [k \in DOMAIN obj \ {field} |-> obj[k]]

\* sentence.aiReview?.content, as a truth value ('' is falsy)
HasReviewContent(sentence) ==
    /\ "aiReview" \in DOMAIN sentence
    /\ sentence.aiReview.content # <<>>

\* text?.trim(), as a truth value
IsNonBlank(text) == \E i \in 1..Len(text) : text[i] \notin Whitespace

\* ------------------------------------------------------------------- clock
\* new Date().toISOString(): the clock never goes back; two readings may fall
\* in the same millisecond.
Now == {t \in {clock, clock + 1} : t <= MaxClock}

\* ---------------------------------------------------------------- storage
HasRecord(id) == id \in DOMAIN store

\* getTranslation: resolve(request.result || null)
getTranslation(id) == IF HasRecord(id) THEN store[id] ELSE Null

\* (mutant) createdAt is stamped on every save
SaveDataStampsCreatedAt(translation, now) ==
    Spread(translation, [createdAt |-> now, updatedAt |-> now])

\* saveTranslation builds the data it writes: createdAt kept when present,
\* updatedAt always set to now.
SaveData(translation, now) ==
    Spread(translation,
           [createdAt |-> IF "createdAt" \in DOMAIN translation
                          THEN translation.createdAt ELSE now,
            updatedAt |-> now])

\* (mutant) the partial fields replace the record instead of merging into it
UpdatedRecordReplaces(existing, updates, id, now) ==
    Spread(updates, [id |-> id, updatedAt |-> now])

\* updateTranslation builds the record it hands to saveTranslation.
UpdatedRecord(existing, updates, id, now) ==
    Spread(Spread(existing, updates), [id |-> id, updatedAt |-> now])

\* store.put(data) / store.add(data) followed by resolve({...data, id})
StoreWith(id, data) ==
    [k \in DOMAIN store \cup {id} |->
        IF k = id THEN Spread(data, [id |-> id]) ELSE store[k]]

\* store.delete(id): succeeds whether or not the key exists
StoreWithout(id) == [k \in DOMAIN store \ {id} |-> store[k]]

\* index('updatedAt').openCursor(null, 'prev'): index entries are ordered by
\* (updatedAt, primary key); the cursor walks them backwards.
RECURSIVE ListFrom(_)
ListFrom(keys) ==
    IF keys = {} THEN <<>>
    ELSE LET top == CHOOSE k \in keys : \A j \in keys :
                        \/ store[j].updatedAt < store[k].updatedAt
                        \/ store[j].updatedAt = store[k].updatedAt /\ j <= k
         IN <<store[top]>> \o ListFrom(keys \ {top})

getAllTranslations == ListFrom(DOMAIN store)

\* A request may complete when everything queued before it has completed;
\* read-only transactions do not wait for each other.
ReadOnly(req) == req.kind \in {"get", "getAll"}

Ready(i) ==
    /\ i \in 1..Len(requests)
    /\ i > 1 => ReadOnly(requests[i]) /\ \A j \in 1..(i - 1) : ReadOnly(requests[j])

Dequeue(i) == SpliceOut(requests, i)

Pending == opening + Len(requests) + Len(fetches)

\* A call from the presentation layer
Called ==
    /\ calls < MaxCalls
    /\ serial => Pending = 0
    /\ calls' = calls + 1

\* ---------------------------------------------------- title of a new record
\* String.prototype.split(/\s+/): a run of whitespace separates two pieces,
\* empty pieces at either end included.
RECURSIVE SplitFrom(_, _, _, _)
SplitFrom(text, i, piece, inGap) ==
    IF i > Len(text) THEN <<piece>>
    ELSE IF text[i] \in Whitespace
         THEN IF inGap THEN SplitFrom(text, i + 1, piece, TRUE)
              ELSE <<piece>> \o SplitFrom(text, i + 1, <<>>, TRUE)
         ELSE SplitFrom(text, i + 1, Append(piece, text[i]), FALSE)

SplitWhitespace(text) == SplitFrom(text, 1, <<>>, FALSE)

\* Array.prototype.join(' ')
RECURSIVE JoinSpace(_)
JoinSpace(pieces) ==
    IF Len(pieces) = 0 THEN <<>>
    ELSE IF Len(pieces) = 1 THEN pieces[1]
    ELSE pieces[1] \o <<" ">> \o JoinSpace(Tail(pieces))

TitleWords == 5

\* sentences[0]?.english || englishText: the sentence list holds strings, a
\* string has no property 'english', so the source text is what is used.
FirstSentence(englishText, sentences) == englishText

DeriveTitle(firstSentence) ==
    LET pieces == SplitWhitespace(firstSentence)
        words == JoinSpace(SubSeq(pieces, 1,
                     IF Len(pieces) < TitleWords THEN Len(pieces) ELSE TitleWords))
    IN IF Len(words) < Len(firstSentence)
       THEN words \o <<".", ".", ".">> ELSE words

\* (mutant) ids taken from the 0-based index
NewSentencesZeroBased(sentences) ==
    [index \in 1..Len(sentences) |->
        [id |-> index - 1, english |-> sentences[index], dutch |-> <<>>]]

\* sentences.map((s, index) => ({ id: index + 1, english: s.english || s,
\* dutch: s.dutch || '' })) over a list of strings
NewSentences(sentences) ==
    [index \in 1..Len(sentences) |->
        [id |-> index, english |-> sentences[index], dutch |-> <<>>]]

NewTranslation(englishText, sentences) ==
    [title |-> DeriveTitle(FirstSentence(englishText, sentences)),
     originalText |-> englishText,
     sentences |-> NewSentences(sentences)]

\* -------------------------------------------------- sentence list edits
\* (mutant) the cached review survives the edit
UpdatedSentenceKeepsReview(sentence, field, value) ==
    [sentence EXCEPT ![field] = value]

\* updateSentence: the sentence with the field set and the cached review gone
UpdatedSentence(sentence, field, value) ==
    DeleteField([sentence EXCEPT ![field] = value], "aiReview")

SentencesAfterUpdate(sentences, sentenceIndex, field, value) ==
    [sentences EXCEPT
        ![sentenceIndex] = UpdatedSentence(sentences[sentenceIndex], field, value)]

\* (mutant) the new id is the length of the list plus one
NewSentenceByLength(sentences) ==
    [id |-> Len(sentences) + 1, english |-> <<>>, dutch |-> <<>>]

\* (mutant) the new sentence is a copy of the last one under the new id
NewSentenceCopiesLast(sentences) ==
    IF sentences = <<>>
    THEN [id |-> 1, english |-> <<>>, dutch |-> <<>>]
    ELSE Spread(sentences[Len(sentences)], [id |-> MaxId(sentences) + 1])

\* addSentence: const newSentence = { id: newId, english: '', dutch: '' }
NewSentence(sentences) ==
    [id |-> MaxId(sentences) + 1, english |-> <<>>, dutch |-> <<>>]

\* (mutant) the new sentence goes in front of the sentence afterId
SentencesAfterAddInsertsBefore(sentences, afterId) ==
    LET index == FindIndex(sentences, afterId)
    IN IF afterId # 0 /\ index # 0
       THEN SpliceIn(sentences, index - 1, NewSentence(sentences))
       ELSE Append(sentences, NewSentence(sentences))

\* addSentence: afterId is 0 for null
SentencesAfterAdd(sentences, afterId) ==
    LET index == FindIndex(sentences, afterId)
    IN IF afterId # 0 /\ index # 0
       THEN SpliceIn(sentences, index, NewSentence(sentences))
       ELSE Append(sentences, NewSentence(sentences))

SentencesAfterDelete(sentences, sentenceId) == FilterOutId(sentences, sentenceId)

\* requestReview: the sentence with the review attached.  'prompt' is not a
\* field of the program's object: it records the call the content answers
\* (the english/dutch pair written into the prompt and the sentence they
\* were read from).
ReviewedSentence(sentence, content, now, fetch) ==
    Spread(sentence,
           [aiReview |-> [content |-> content, generatedAt |-> now,
                          prompt |-> fetch]])

\* getContextSentences
MaxOf(a, b) == IF a > b THEN a ELSE b

MinOf(a, b) == IF a < b THEN a ELSE b

ContextSize == 3

EnglishOf(sentences) == [i \in 1..Len(sentences) |-> sentences[i].english]

ContextBefore(sentences, index) ==
    SelectSeq(EnglishOf(SubSeq(sentences, MaxOf(1, index - ContextSize), index - 1)),
              IsNonBlank)

\* (mutant) every sentence after the target is taken
ContextAfterToEnd(sentences, index) ==
    SelectSeq(EnglishOf(SubSeq(sentences, index + 1, Len(sentences))), IsNonBlank)

ContextAfter(sentences, index) ==
    SelectSeq(EnglishOf(SubSeq(sentences, index + 1,
                               MinOf(Len(sentences), index + ContextSize))),
              IsNonBlank)

\* currentTranslation.value?.id
CurrentId == IF currentTranslation = Null THEN 0 ELSE currentTranslation.id

\* ==================================================================== Init
storeVars == <<store, nextKey>>

listVars == <<translations, currentTranslation>>

reviewVars == <<reviewSentenceId, isReviewLoading, reviewError>>

loadVars == <<isLoading, isInitialized, opening>>

frame == <<calls, serial>>

\* Nothing loaded, no call made, no request in flight.
Idle ==
    /\ clock = 1
    /\ apiKey \in BOOLEAN
    /\ isLoading = FALSE
    /\ reviewSentenceId = 0
    /\ isReviewLoading = FALSE
    /\ reviewError = NoError
    /\ opening = 0
    /\ requests = <<>>
    /\ fetches = <<>>
    /\ calls = 0

\* A fresh installation: nothing stored; the API key may have been entered.
Fresh ==
    /\ Idle
    /\ store = [k \in {} |-> Null]
    /\ nextKey = 1
    /\ translations = <<>>
    /\ currentTranslation = Null
    /\ isInitialized = FALSE
    /\ event = [op |-> "init", result |-> "returned"]

Init == Fresh /\ serial = FALSE

InitSerial == Fresh /\ serial = TRUE

\* The exercise view right after the first text was submitted: the state
\* createTranslation leaves behind on a fresh installation (the home view
\* submits a text only when it has at least one sentence).
Opened ==
    /\ Idle
    /\ isInitialized = FALSE
    /\ nextKey = 2
    /\ \E s \in {sub \in Submissions : Len(sub.sentences) > 0} :
          LET saved == Spread(SaveData(NewTranslation(s.text, s.sentences), 1),
                              [id |-> 1])
          IN /\ store = [k \in {1} |-> saved]
             /\ translations = <<saved>>
             /\ currentTranslation = saved
             /\ event = [op |-> "createTranslation", result |-> "resolved",
                         args |-> s]

InitOpened == Opened /\ serial = FALSE

InitOpenedSerial == Opened /\ serial = TRUE

Ev(op, result) == [op |-> op, result |-> result]

EvArgs(op, result, args) == [op |-> op, result |-> result, args |-> args]

\* ============================================================== settings
saveApiKey ==
    /\ Called
    /\ apiKey' = TRUE
    /\ event' = Ev("saveApiKey", "returned")
    /\ UNCHANGED <<storeVars, clock, listVars, loadVars, reviewVars, requests,
                   fetches, serial>>

removeApiKey ==
    /\ Called
    /\ apiKey' = FALSE
    /\ event' = Ev("removeApiKey", "returned")
    /\ UNCHANGED <<storeVars, clock, listVars, loadVars, reviewVars, requests,
                   fetches, serial>>

\* ==================================================== loading translations
\* initialize(), up to 'await initDB()'
initialize ==
    /\ Called
    /\ IF isInitialized
       THEN /\ event' = Ev("initialize", "returned")
            /\ UNCHANGED <<isLoading, opening>>
       ELSE /\ Pending < MaxPending
            /\ isLoading' = TRUE
            /\ opening' = opening + 1
            /\ event' = Ev("initialize", "pending")
    /\ UNCHANGED <<storeVars, clock, apiKey, listVars, isInitialized, reviewVars,
                   requests, fetches, serial>>

\* indexedDB.open succeeds; initialize() goes on into loadTranslations(), up
\* to 'await getAllTranslations()'
initDBResolves ==
    /\ opening > 0
    /\ opening' = opening - 1
    /\ isLoading' = TRUE
    /\ requests' = Append(requests, [kind |-> "getAll", caller |-> "initialize"])
    /\ event' = Ev("initDB", "resolved")
    /\ UNCHANGED <<storeVars, clock, apiKey, listVars, isInitialized, reviewVars,
                   fetches, frame>>

\* indexedDB.open fails: initialize() rethrows
initDBRejects ==
    /\ opening > 0
    /\ opening' = opening - 1
    /\ isLoading' = FALSE
    /\ event' = Ev("initialize", "rejected")
    /\ UNCHANGED <<storeVars, clock, apiKey, listVars, isInitialized, reviewVars,
                   requests, fetches, frame>>

\* getAllTranslations() resolves inside loadTranslations() inside initialize()
loadTranslationsResolves(i) ==
    /\ Ready(i)
    /\ requests[i].kind = "getAll"
    /\ translations' = getAllTranslations
    /\ isInitialized' = TRUE
    /\ isLoading' = FALSE
    /\ requests' = Dequeue(i)
    /\ event' = Ev("initialize", "resolved")
    /\ UNCHANGED <<storeVars, clock, apiKey, currentTranslation, opening,
                   reviewVars, fetches, frame>>

\* loadTranslation(id), up to 'await getTranslation(id)'
loadTranslation(id) ==
    /\ Called
    /\ Pending < MaxPending
    /\ isLoading' = TRUE
    /\ requests' = Append(requests,
          [kind |-> "get", caller |-> "loadTranslation", id |-> id])
    /\ event' = Ev("loadTranslation", "pending")
    /\ UNCHANGED <<storeVars, clock, apiKey, listVars, isInitialized, opening,
                   reviewVars, fetches, serial>>

\* loadTranslation after 'await getTranslation(id)'
CurrentAfterLoad(translation) ==
    IF translation # Null THEN translation ELSE currentTranslation

\* getTranslation(id) resolves inside loadTranslation
loadTranslationResolves(i) ==
    /\ Ready(i)
    /\ requests[i].kind = "get"
    /\ requests[i].caller = "loadTranslation"
    /\ LET translation == getTranslation(requests[i].id)
       IN /\ currentTranslation' = CurrentAfterLoad(translation)
          /\ event' = EvArgs("loadTranslation", "resolved",
                             [id |-> requests[i].id, translation |-> translation])
    /\ isLoading' = FALSE
    /\ requests' = Dequeue(i)
    /\ UNCHANGED <<storeVars, clock, apiKey, translations, isInitialized, opening,
                   reviewVars, fetches, frame>>

\* ================================================== creating a translation
PendingAdds == Len(SelectSeq(requests, LAMBDA r : r.kind = "add"))

\* createTranslation(englishText, sentences), up to the store.add request of
\* saveTranslation
createTranslation(englishText, sentences) ==
    /\ Called
    /\ Pending < MaxPending
    /\ nextKey + PendingAdds <= MaxTranslations
    /\ \E now \in Now :
          /\ clock' = now
          /\ requests' = Append(requests,
                [kind |-> "add", caller |-> "createTranslation",
                 data |-> SaveData(NewTranslation(englishText, sentences), now),
                 args |-> [text |-> englishText, sentences |-> sentences]])
    /\ event' = Ev("createTranslation", "pending")
    /\ UNCHANGED <<storeVars, apiKey, listVars, loadVars, reviewVars, fetches, serial>>

\* createTranslation after 'await saveTranslation(newTranslation)'
ListAfterCreate(list, saved) == Unshift(list, saved)

\* store.add succeeds: the rest of createTranslation
createTranslationResolves(i) ==
    /\ Ready(i)
    /\ requests[i].kind = "add"
    /\ LET savedId == nextKey
           saved == Spread(requests[i].data, [id |-> savedId])
       IN /\ store' = StoreWith(savedId, requests[i].data)
          /\ nextKey' = nextKey + 1
          /\ currentTranslation' = saved
          /\ translations' = ListAfterCreate(translations, saved)
    /\ requests' = Dequeue(i)
    /\ event' = EvArgs("createTranslation", "resolved", requests[i].args)
    /\ UNCHANGED <<clock, apiKey, loadVars, reviewVars, fetches, frame>>

\* ================================================= updating a translation
\* updateCurrentTranslation(updates) when there is a current translation, up
\* to the getTranslation request of updateTranslation.  'origin' is the
\* function that awaits it and 'args' what that function was called with.
UpdateRequest(updates, origin, args) ==
    [kind |-> "get", caller |-> "updateCurrentTranslation", origin |-> origin,
     id |-> currentTranslation.id, updates |-> updates, args |-> args]

\* updateSentence(sentenceId, field, value)
updateSentence(sentenceId, field, value) ==
    /\ Called
    /\ IF currentTranslation = Null
       THEN /\ event' = Ev("updateSentence", "returned")
            /\ UNCHANGED requests
       ELSE LET sentences == currentTranslation.sentences
                sentenceIndex == FindIndex(sentences, sentenceId)
            IN IF sentenceIndex = 0
               THEN /\ event' = Ev("updateSentence", "returned")
                    /\ UNCHANGED requests
               ELSE /\ Pending < MaxPending
                    /\ requests' = Append(requests, UpdateRequest(
                          [sentences |-> SentencesAfterUpdate(sentences,
                               sentenceIndex, field, value)],
                          "updateSentence",
                          [sentenceId |-> sentenceId, field |-> field,
                           cached |-> "aiReview" \in DOMAIN sentences[sentenceIndex],
                           same |-> sentences[sentenceIndex][field] = value]))
                    /\ event' = Ev("updateSentence", "pending")
    /\ UNCHANGED <<storeVars, clock, apiKey, listVars, loadVars, reviewVars,
                   fetches, serial>>

\* addSentence(afterId)
addSentence(afterId) ==
    /\ Called
    /\ IF currentTranslation = Null
       THEN /\ event' = Ev("addSentence", "returned")
            /\ UNCHANGED requests
       ELSE LET sentences == currentTranslation.sentences
            IN /\ Pending < MaxPending
               /\ Len(sentences) < MaxSentences
               /\ MaxId(sentences) < MaxSentenceId
               /\ requests' = Append(requests, UpdateRequest(
                     [sentences |-> SentencesAfterAdd(sentences, afterId)],
                     "addSentence",
                     [afterId |-> afterId, before |-> sentences,
                      newId |-> NewSentence(sentences).id]))
               /\ event' = Ev("addSentence", "pending")
    /\ UNCHANGED <<storeVars, clock, apiKey, listVars, loadVars, reviewVars,
                   fetches, serial>>

\* The call that ended in the step just taken was an addSentence that added
\* the sentence 'sentenceId': the sentence list it started from, else none.
JustAdded(sentenceId) ==
    IF /\ event.op = "addSentence"
       /\ event.result = "resolved"
       /\ event.args.newId = sentenceId
    THEN <<event.args>>
    ELSE <<>>

\* deleteSentence(sentenceId)
deleteSentence(sentenceId) ==
    /\ Called
    /\ IF currentTranslation = Null
       THEN /\ event' = Ev("deleteSentence", "returned")
            /\ UNCHANGED requests
       ELSE /\ Pending < MaxPending
            /\ requests' = Append(requests, UpdateRequest(
                  [sentences |-> SentencesAfterDelete(currentTranslation.sentences,
                                                      sentenceId)],
                  "deleteSentence",
                  [sentenceId |-> sentenceId, undoes |-> JustAdded(sentenceId)]))
            /\ event' = Ev("deleteSentence", "pending")
    /\ UNCHANGED <<storeVars, clock, apiKey, listVars, loadVars, reviewVars,
                   fetches, serial>>

\* renameTranslation(id, newTitle), up to the getTranslation request of
\* updateTranslation
renameTranslation(id, newTitle) ==
    /\ Called
    /\ Pending < MaxPending
    /\ requests' = Append(requests,
          [kind |-> "get", caller |-> "renameTranslation",
           origin |-> "renameTranslation", id |-> id,
           updates |-> [title |-> newTitle],
           args |-> [id |-> id, newTitle |-> newTitle]])
    /\ event' = Ev("renameTranslation", "pending")
    /\ UNCHANGED <<storeVars, clock, apiKey, listVars, loadVars, reviewVars,
                   fetches, serial>>

\* (mutant) requestReview has no finally block: a store failure leaves
\* isReviewLoading as it was
RejectedWithoutFinally(origin, message) ==
    /\ IF origin = "requestReview"
       THEN /\ reviewError' = message
            /\ UNCHANGED <<isReviewLoading, reviewSentenceId>>
       ELSE UNCHANGED reviewVars
    /\ event' = EvArgs(origin, "rejected", [message |-> message])

\* What the awaiting function does when its store call rejects: requestReview
\* catches (reviewError, then finally), every other function rethrows.
Rejected(origin, message) ==
    /\ IF origin = "requestReview"
       THEN /\ reviewError' = message
            /\ isReviewLoading' = FALSE
            /\ UNCHANGED reviewSentenceId
       ELSE UNCHANGED reviewVars
    /\ event' = EvArgs(origin, "rejected", [message |-> message])

\* getTranslation(id) resolves inside updateTranslation: not found throws,
\* otherwise the merged record goes to saveTranslation, up to its store.put
updateTranslationReads(i) ==
    /\ Ready(i)
    /\ requests[i].kind = "get"
    /\ requests[i].caller \in {"updateCurrentTranslation", "renameTranslation"}
    /\ LET req == requests[i]
           existing == getTranslation(req.id)
       IN IF existing = Null
          THEN /\ requests' = Dequeue(i)
               /\ Rejected(req.origin, TranslationNotFound(req.id))
               /\ UNCHANGED clock
          ELSE /\ \E now \in Now :
                     /\ clock' = now
                     /\ requests' = Append(Dequeue(i),
                           [kind |-> "put", caller |-> req.caller,
                            origin |-> req.origin, id |-> req.id,
                            data |-> SaveData(UpdatedRecord(existing,
                                         req.updates, req.id, now), now),
                            args |-> req.args])
               /\ event' = Ev("updateTranslation", "pending")
               /\ UNCHANGED reviewVars
    /\ UNCHANGED <<storeVars, apiKey, listVars, loadVars, fetches, frame>>

\* updateCurrentTranslation after 'await updateTranslation(id, updates)'
ListAfterUpdate(list, id, updated) ==
    LET index == FindIndex(list, id)
    IN IF index # 0 THEN Unshift(SpliceOut(list, index), updated) ELSE list

\* store.put succeeds: the rest of updateCurrentTranslation and of the
\* function awaiting it
updateCurrentTranslationResolves(i) ==
    /\ Ready(i)
    /\ requests[i].kind = "put"
    /\ requests[i].caller = "updateCurrentTranslation"
    /\ LET req == requests[i]
           updated == Spread(req.data, [id |-> req.id])
       IN /\ store' = StoreWith(req.id, req.data)
          /\ currentTranslation' = updated
          /\ translations' = ListAfterUpdate(translations, req.id, updated)
          /\ isReviewLoading' =
                IF req.origin = "requestReview" THEN FALSE ELSE isReviewLoading
          /\ event' = EvArgs(req.origin, "resolved", req.args)
    /\ requests' = Dequeue(i)
    /\ UNCHANGED <<nextKey, clock, apiKey, loadVars, reviewSentenceId, reviewError,
                   fetches, frame>>

\* (mutant) the renamed entry moves to the top of the list
ListAfterRenameMovesToTop(list, id, updated) ==
    LET index == FindIndex(list, id)
    IN IF index # 0 THEN Unshift(SpliceOut(list, index), updated) ELSE list

\* renameTranslation after 'await updateTranslation(id, { title })'
ListAfterRename(list, id, updated) ==
    LET index == FindIndex(list, id)
    IN IF index # 0 THEN [list EXCEPT ![index] = updated] ELSE list

\* store.put succeeds: the rest of renameTranslation
renameTranslationResolves(i) ==
    /\ Ready(i)
    /\ requests[i].kind = "put"
    /\ requests[i].caller = "renameTranslation"
    /\ LET req == requests[i]
           updated == Spread(req.data, [id |-> req.id])
       IN /\ store' = StoreWith(req.id, req.data)
          /\ translations' = ListAfterRename(translations, req.id, updated)
          /\ currentTranslation' =
                IF CurrentId = req.id THEN updated ELSE currentTranslation
          /\ event' = EvArgs("renameTranslation", "resolved", req.args)
    /\ requests' = Dequeue(i)
    /\ UNCHANGED <<nextKey, clock, apiKey, loadVars, reviewVars, fetches, frame>>

\* removeTranslation(id), up to the store.delete request of deleteTranslation
removeTranslation(id) ==
    /\ Called
    /\ Pending < MaxPending
    /\ requests' = Append(requests,
          [kind |-> "delete", caller |-> "removeTranslation", id |-> id])
    /\ event' = Ev("removeTranslation", "pending")
    /\ UNCHANGED <<storeVars, clock, apiKey, listVars, loadVars, reviewVars,
                   fetches, serial>>

\* store.delete succeeds: the rest of removeTranslation
removeTranslationResolves(i) ==
    /\ Ready(i)
    /\ requests[i].kind = "delete"
    /\ LET id == requests[i].id
       IN /\ store' = StoreWithout(id)
          /\ translations' = FilterOutId(translations, id)
          /\ currentTranslation' = IF CurrentId = id THEN Null ELSE currentTranslation
          /\ event' = EvArgs("removeTranslation", "resolved", [id |-> id])
    /\ requests' = Dequeue(i)
    /\ UNCHANGED <<nextKey, clock, apiKey, loadVars, reviewVars, fetches, frame>>

clearCurrentTranslation ==
    /\ Called
    /\ currentTranslation' = Null
    /\ event' = Ev("clearCurrentTranslation", "returned")
    /\ UNCHANGED <<storeVars, clock, apiKey, translations, loadVars, reviewVars,
                   requests, fetches, serial>>

\* (mutant) the catch block drops the current translation
requestRejectsClearsCurrent(i) ==
    /\ Ready(i)
    /\ LET req == requests[i]
       IN /\ Rejected(IF "origin" \in DOMAIN req THEN req.origin ELSE req.caller,
                      StoreError)
          /\ isLoading' = IF req.caller \in {"loadTranslation", "initialize"}
                          THEN FALSE ELSE isLoading
    /\ requests' = Dequeue(i)
    /\ currentTranslation' = Null
    /\ UNCHANGED <<storeVars, clock, apiKey, translations, isInitialized, opening,
                   fetches, frame>>

\* An IndexedDB request fails (request.onerror): the promise rejects and the
\* awaiting function's catch and finally blocks run.
requestRejects(i) ==
    /\ Ready(i)
    /\ LET req == requests[i]
       IN /\ Rejected(IF "origin" \in DOMAIN req THEN req.origin ELSE req.caller,
                      StoreError)
          /\ isLoading' = IF req.caller \in {"loadTranslation", "initialize"}
                          THEN FALSE ELSE isLoading
    /\ requests' = Dequeue(i)
    /\ UNCHANGED <<storeVars, clock, apiKey, listVars, isInitialized, opening,
                   fetches, frame>>

\* ============================================================== AI review
openReview(sentenceId) ==
    /\ Called
    /\ reviewSentenceId' = sentenceId
    /\ reviewError' = NoError
    /\ event' = Ev("openReview", "returned")
    /\ UNCHANGED <<storeVars, clock, apiKey, listVars, loadVars, isReviewLoading,
                   requests, fetches, serial>>

closeReview ==
    /\ Called
    /\ reviewSentenceId' = 0
    /\ reviewError' = NoError
    /\ isReviewLoading' = FALSE
    /\ event' = Ev("closeReview", "returned")
    /\ UNCHANGED <<storeVars, clock, apiKey, listVars, loadVars, requests, fetches,
                   serial>>

\* The arguments of reviewTranslation(apiKey, english, dutch, before, after),
\* with the sentence they were taken from.
ReviewCall(translation, index) ==
    [translationId |-> translation.id,
     sentenceId |-> translation.sentences[index].id,
     english |-> translation.sentences[index].english,
     dutch |-> translation.sentences[index].dutch,
     before |-> ContextBefore(translation.sentences, index),
     after |-> ContextAfter(translation.sentences, index)]

\* (mutant) the API key is not looked at
ReviewDecisionIgnoresKey ==
    IF reviewSentenceId = 0 \/ currentTranslation = Null THEN "nothing to review"
    ELSE LET index == FindIndex(currentTranslation.sentences, reviewSentenceId)
         IN IF index = 0 THEN "sentence not found"
            ELSE IF HasReviewContent(currentTranslation.sentences[index])
                 THEN "cached" ELSE "fetch"

\* (mutant) the cached review is not looked at
ReviewDecisionIgnoresCache ==
    IF reviewSentenceId = 0 \/ currentTranslation = Null THEN "nothing to review"
    ELSE LET index == FindIndex(currentTranslation.sentences, reviewSentenceId)
         IN IF index = 0 THEN "sentence not found"
            ELSE IF ~apiKey THEN "no api key" ELSE "fetch"

\* How requestReview() ends its synchronous part
ReviewDecision ==
    IF reviewSentenceId = 0 \/ currentTranslation = Null THEN "nothing to review"
    ELSE LET index == FindIndex(currentTranslation.sentences, reviewSentenceId)
         IN IF index = 0 THEN "sentence not found"
            ELSE IF HasReviewContent(currentTranslation.sentences[index])
                 THEN "cached"
                 ELSE IF ~apiKey THEN "no api key" ELSE "fetch"

\* requestReview(), up to 'await reviewTranslation(...)'
requestReview ==
    /\ Called
    /\ event' = Ev("requestReview", ReviewDecision)
    /\ CASE ReviewDecision = "sentence not found" ->
              /\ reviewError' = SentenceNotFound
              /\ UNCHANGED <<isReviewLoading, fetches>>
         [] ReviewDecision = "no api key" ->
              /\ reviewError' = ApiKeyNotConfigured
              /\ UNCHANGED <<isReviewLoading, fetches>>
         [] ReviewDecision = "fetch" ->
              /\ Pending < MaxPending
              /\ isReviewLoading' = TRUE
              /\ reviewError' = NoError
              /\ fetches' = Append(fetches,
                    ReviewCall(currentTranslation,
                        FindIndex(currentTranslation.sentences, reviewSentenceId)))
         [] OTHER -> UNCHANGED <<isReviewLoading, reviewError, fetches>>
    /\ UNCHANGED <<storeVars, clock, apiKey, listVars, loadVars, reviewSentenceId,
                   requests, serial>>

\* (mutant) the failure is swallowed: reviewError is left as it was
reviewTranslationFailsSilently(k) ==
    /\ k \in 1..Len(fetches)
    /\ fetches' = SpliceOut(fetches, k)
    /\ isReviewLoading' = FALSE
    /\ event' = EvArgs("requestReview", "rejected", [message |-> UpstreamError])
    /\ UNCHANGED <<storeVars, clock, apiKey, listVars, loadVars, reviewSentenceId,
                   reviewError, requests, frame>>

\* reviewTranslation returns { success: false, error }: requestReview throws
\* into its own catch
reviewTranslationFails(k) ==
    /\ k \in 1..Len(fetches)
    /\ fetches' = SpliceOut(fetches, k)
    /\ reviewError' = UpstreamError
    /\ isReviewLoading' = FALSE
    /\ event' = EvArgs("requestReview", "rejected", [message |-> UpstreamError])
    /\ UNCHANGED <<storeVars, clock, apiKey, listVars, loadVars, reviewSentenceId,
                   requests, frame>>

\* requestReview after a successful review: the index of the sentence the
\* review is saved to (0: none)
ReviewTarget(sentences, fetch) == FindIndex(sentences, reviewSentenceId)

\* reviewTranslation returns { success: true, content }: the rest of
\* requestReview, up to the getTranslation request of updateTranslation
reviewTranslationSucceeds(k, content) ==
    /\ k \in 1..Len(fetches)
    /\ fetches' = SpliceOut(fetches, k)
    /\ IF currentTranslation = Null
       THEN \* currentTranslation.value.sentences throws a TypeError
            /\ reviewError' = NullDereference
            /\ isReviewLoading' = FALSE
            /\ event' = EvArgs("requestReview", "rejected",
                               [message |-> NullDereference])
            /\ UNCHANGED <<clock, requests>>
       ELSE LET sentences == currentTranslation.sentences
                sentenceIndex == ReviewTarget(sentences, fetches[k])
            IN IF sentenceIndex = 0
               THEN /\ isReviewLoading' = FALSE
                    /\ event' = EvArgs("requestReview", "resolved", fetches[k])
                    /\ UNCHANGED <<clock, reviewError, requests>>
               ELSE /\ \E now \in Now :
                          /\ clock' = now
                          /\ requests' = Append(requests, UpdateRequest(
                                [sentences |-> [sentences EXCEPT ![sentenceIndex] =
                                    ReviewedSentence(sentences[sentenceIndex],
                                                     content, now, fetches[k])]],
                                "requestReview", fetches[k]))
                    /\ event' = Ev("requestReview", "saving")
                    /\ UNCHANGED <<isReviewLoading, reviewError>>
    /\ UNCHANGED <<storeVars, apiKey, listVars, loadVars, reviewSentenceId, frame>>

\* ==================================================================== Next
Next ==
    \/ saveApiKey
    \/ removeApiKey
    \/ initialize
    \/ initDBResolves
    \/ initDBRejects
    \/ \E i \in 1..Len(requests) : loadTranslationsResolves(i)
    \/ \E id \in TranslationIds : loadTranslation(id)
    \/ \E i \in 1..Len(requests) : loadTranslationResolves(i)
    \/ \E s \in Submissions : createTranslation(s.text, s.sentences)
    \/ \E i \in 1..Len(requests) : createTranslationResolves(i)
    \/ \E id \in SentenceIds, f \in Fields, v \in EditValues : updateSentence(id, f, v)
    \/ \E afterId \in {0} \cup SentenceIds : addSentence(afterId)
    \/ \E id \in SentenceIds : deleteSentence(id)
    \/ \E id \in TranslationIds, t \in NewTitles : renameTranslation(id, t)
    \/ \E i \in 1..Len(requests) : updateTranslationReads(i)
    \/ \E i \in 1..Len(requests) : updateCurrentTranslationResolves(i)
    \/ \E i \in 1..Len(requests) : renameTranslationResolves(i)
    \/ \E id \in TranslationIds : removeTranslation(id)
    \/ \E i \in 1..Len(requests) : removeTranslationResolves(i)
    \/ clearCurrentTranslation
    \/ \E i \in 1..Len(requests) : requestRejects(i)
    \/ \E id \in SentenceIds : openReview(id)
    \/ closeReview
    \/ requestReview
    \/ \E k \in 1..Len(fetches) : reviewTranslationFails(k)
    \/ \E k \in 1..Len(fetches), c \in ReviewContents : reviewTranslationSucceeds(k, c)

\* Calls may overlap, from a fresh installation
Spec == Init /\ [][Next]_vars

\* Every call is awaited before the next is made
SpecSerial == InitSerial /\ [][Next]_vars

\* Calls may overlap, from an open translation
SpecOpened == InitOpened /\ [][Next]_vars

\* The same with every call completed before the next one is made
SpecOpenedSerial == InitOpenedSerial /\ [][Next]_vars

\* ================================================================== claims
\* Every copy of a translation the program holds
KnownTranslations ==
    {store[k] : k \in DOMAIN store}
        \cup {translations[i] : i \in 1..Len(translations)}
        \cup (IF currentTranslation = Null THEN {} ELSE {currentTranslation})

\* The sentences of a translation that carry an aiReview
Reviewed(translation) ==
    {translation.sentences[i] : i \in
        {j \in 1..Len(translation.sentences) :
            "aiReview" \in DOMAIN translation.sentences[j]}}

\* The step is a call of 'op' by the presentation layer
IsCall(op) == calls' # calls /\ event'.op = op

\* The step just taken completed a call of 'op' successfully
Resolved(op) == event.op = op /\ event.result = "resolved"

\* C1 -- a review requested for sentence A is saved on sentence A, also when
\* the open review was switched to sentence B before the response arrived:
\* no sentence carries a review that was requested for another sentence.
C1_ReviewOnRequestedSentence ==
    \A t \in KnownTranslations : \A s \in Reviewed(t) :
        s.aiReview.prompt.sentenceId = s.id

\* C2 -- every sentence that carries an aiReview has the english and dutch
\* values that were sent in the request that produced the review.  Stated
\* for the reviews that sit on the sentence and translation they were
\* requested for (the other ones are the subject of C1 and C27).
C2_ReviewMatchesTexts ==
    \A t \in KnownTranslations : \A s \in Reviewed(t) :
        (s.aiReview.prompt.sentenceId = s.id /\ s.aiReview.prompt.translationId = t.id)
            => s.english = s.aiReview.prompt.english /\ s.dutch = s.aiReview.prompt.dutch

\* Sentence 'sentenceId' of the translation is there and carries no aiReview
Unreviewed(translation, sentenceId) ==
    /\ \E i \in 1..Len(translation.sentences) : translation.sentences[i].id = sentenceId
    /\ \A i \in 1..Len(translation.sentences) :
          translation.sentences[i].id = sentenceId
              => "aiReview" \notin DOMAIN translation.sentences[i]

\* C3 -- when updateSentence(id, 'english' | 'dutch', value) on a sentence
\* that had a cached aiReview completes, that sentence has no aiReview in
\* currentTranslation nor in the stored record, whatever the value.
C3_UpdateClearsReview ==
    (Resolved("updateSentence") /\ event.args.cached) =>
        /\ currentTranslation # Null
        /\ Unreviewed(currentTranslation, event.args.sentenceId)
        /\ HasRecord(currentTranslation.id)
        /\ Unreviewed(store[currentTranslation.id], event.args.sentenceId)

\* C3 witness: such an update, writing the value the field already had
C3_Witness ==
    /\ Resolved("updateSentence")
    /\ event.args.cached
    /\ event.args.same

\* The open review points at a sentence of the current translation whose
\* aiReview, if any, has no content
TargetUncached ==
    /\ reviewSentenceId # 0
    /\ currentTranslation # Null
    /\ \E i \in 1..Len(currentTranslation.sentences) :
          currentTranslation.sentences[i].id = reviewSentenceId
    /\ \A i \in 1..Len(currentTranslation.sentences) :
          currentTranslation.sentences[i].id = reviewSentenceId
              => ~HasReviewContent(currentTranslation.sentences[i])

\* The open review points at a sentence of the current translation that has
\* aiReview.content
TargetCached ==
    /\ reviewSentenceId # 0
    /\ currentTranslation # Null
    /\ \E i \in 1..Len(currentTranslation.sentences) :
          /\ currentTranslation.sentences[i].id = reviewSentenceId
          /\ HasReviewContent(currentTranslation.sentences[i])

\* C4 as claimed -- requestReview() without an API key issues no network
\* call and sets reviewError to the credential-missing message in its
\* synchronous part.
C4_NoKeyAlwaysReported ==
    [][(IsCall("requestReview") /\ ~apiKey)
          => (fetches' = fetches /\ reviewError' = ApiKeyNotConfigured)]_vars

\* C4 as amended -- requestReview() without an API key issues no network
\* call and no store request; it sets reviewError to the credential-missing
\* message in its synchronous part when the open review points at a sentence
\* of the current translation that has no cached review content.
C4_NoKeyReportedWhenUncached ==
    [][(IsCall("requestReview") /\ ~apiKey)
          => /\ fetches' = fetches
             /\ requests' = requests
             /\ isReviewLoading' = isReviewLoading
             /\ TargetUncached => reviewError' = ApiKeyNotConfigured]_vars

\* C4 witness: the call just made found no key and reported it
C4_Witness ==
    /\ event = Ev("requestReview", "no api key")
    /\ ~apiKey
    /\ TargetUncached
    /\ reviewError = ApiKeyNotConfigured

\* C5 -- requestReview() on a sentence that already has aiReview.content
\* changes nothing: no network call, no store request or write, and
\* isReviewLoading, reviewError, currentTranslation, translations unchanged.
C5_CachedIsNoOp ==
    [][(IsCall("requestReview") /\ TargetCached)
          => UNCHANGED <<fetches, requests, store, nextKey, isReviewLoading,
                         reviewError, reviewSentenceId, currentTranslation,
                         translations>>]_vars

\* C5 witness: requestReview() was just called on a cached sentence
C5_Witness ==
    /\ event.op = "requestReview"
    /\ event.result = "cached"
    /\ TargetCached

\* C6 -- when createTranslation(text, list) completes, the record it stored
\* has sentences with ids 1..n in input order, english from the list and
\* dutch empty, and that record is currentTranslation and translations[0].
C6_CreateResult ==
    Resolved("createTranslation") =>
        /\ currentTranslation # Null
        /\ currentTranslation.sentences =
              [i \in 1..Len(event.args.sentences) |->
                  [id |-> i, english |-> event.args.sentences[i], dutch |-> <<>>]]
        /\ HasRecord(currentTranslation.id)
        /\ store[currentTranslation.id] = currentTranslation
        /\ Len(translations) > 0
        /\ translations[1] = currentTranslation

\* C6 witness: a list of two sentences was just stored
C6_Witness ==
    /\ Resolved("createTranslation")
    /\ Len(event.args.sentences) = 2
    /\ calls > 0

\* C7 -- with every call completed before the next one starts, translations
\* holds the records of the store in the order listAll returns them.
C7_ListMirrorsStore ==
    Pending = 0 => translations = getAllTranslations

\* C8 -- an update that names only the title leaves every other field of the
\* stored record but updatedAt as it was.
C8_UpdateMerges ==
    [][(event'.op = "renameTranslation" /\ event'.result = "resolved"
            /\ requests' # requests)
          => LET id == event'.args.id
             IN /\ HasRecord(id)
                /\ id \in DOMAIN store'
                /\ DOMAIN store'[id] = DOMAIN store[id]
                /\ \A k \in DOMAIN store[id] \ {"title", "updatedAt"} :
                      store'[id][k] = store[id][k]
                /\ store'[id].title = event'.args.newTitle
                /\ store'[id].updatedAt >= store[id].updatedAt]_vars

\* C8 witness: a record with sentences was just renamed
C8_Witness ==
    /\ Resolved("renameTranslation")
    /\ HasRecord(event.args.id)
    /\ store[event.args.id].title = event.args.newTitle
    /\ Len(store[event.args.id].sentences) > 0

C10_NotFoundUnsetsCurrent ==
    (Resolved("loadTranslation") /\ event.args.translation = Null)
        => currentTranslation = Null

\* An initialize() call that has not failed is under way or has completed
InitializeStarted ==
    \/ isInitialized
    \/ opening > 0
    \/ \E i \in 1..Len(requests) : requests[i].kind = "getAll"

\* C11 -- once an initialize() call has completed or is still awaiting the
\* store, every further initialize() call is a no-op: it opens nothing,
\* queues no store request and changes no state of the store module.
C11_InitializeOnce ==
    [][(IsCall("initialize") /\ InitializeStarted)
          => UNCHANGED <<opening, requests, store, nextKey, translations,
                         currentTranslation, isLoading, isInitialized>>]_vars

\* C12 -- removeTranslation(id) reports success only when the id was in the
\* store: a delete of an absent id signals NotFound and the call rejects.
C12_DeleteAbsentRejects ==
    [][(event'.op = "removeTranslation" /\ event'.result = "resolved"
            /\ requests' # requests)
          => HasRecord(event'.args.id)]_vars

\* C13 -- whenever no review is open (reviewSentenceId is none), reviewError
\* is none and isReviewLoading is false, also after a request that was in
\* flight when closeReview() ran has succeeded or failed.
C13_ClosedReviewIsClean ==
    reviewSentenceId = 0 => (reviewError = NoError /\ isReviewLoading = FALSE)

\* The step is the return of a failure result by the review operation
ReviewFailed ==
    /\ fetches' # fetches
    /\ event'.op = "requestReview"
    /\ event'.result = "rejected"
    /\ event'.args.message = UpstreamError

\* C14 -- when the review operation returns a failure result, requestReview
\* sets reviewError to the failure message and isReviewLoading to false,
\* writes no aiReview to any sentence and makes no store write or request.
C14_FailureIsReported ==
    [][ReviewFailed
          => /\ reviewError' = UpstreamError
             /\ isReviewLoading' = FALSE
             /\ UNCHANGED <<store, nextKey, requests, currentTranslation,
                            translations>>]_vars

\* C14 witness: a review call has just failed and the failure is shown
C14_Witness ==
    /\ event = EvArgs("requestReview", "rejected", [message |-> UpstreamError])
    /\ reviewError = UpstreamError
    /\ isReviewLoading = FALSE
    /\ reviewSentenceId # 0

\* Sentence 'sentenceId' of the translation carries an aiReview
HasReview(translation, sentenceId) ==
    \E i \in 1..Len(translation.sentences) :
        /\ translation.sentences[i].id = sentenceId
        /\ "aiReview" \in DOMAIN translation.sentences[i]

\* The step made an aiReview appear on a sentence that had none, in a stored
\* record or in currentTranslation
ReviewAppears ==
    \/ \E k \in DOMAIN store' : \E id \in SentenceIds :
          /\ HasReview(store'[k], id)
          /\ ~(HasRecord(k) /\ HasReview(store[k], id))
    \/ /\ currentTranslation' # Null
       /\ \E id \in SentenceIds :
             /\ HasReview(currentTranslation', id)
             /\ ~(HasRecord(currentTranslation'.id)
                    /\ HasReview(store[currentTranslation'.id], id))
             /\ ~(currentTranslation # Null
                    /\ currentTranslation.id = currentTranslation'.id
                    /\ HasReview(currentTranslation, id))

\* C15 -- with calls made one after another, an aiReview appears on a
\* sentence that had none only in the step that completes the write of a
\* successful review response, and then only in the translation the review
\* was requested for; never through createTranslation, updateSentence,
\* addSentence, deleteSentence or renameTranslation.
C15_OnlyReviewWritesReview ==
    [][ReviewAppears
          => /\ event'.op = "requestReview"
             /\ event'.result = "resolved"
             /\ requests' # requests
             /\ \A k \in DOMAIN store' : \A id \in SentenceIds :
                   (HasReview(store'[k], id)
                        /\ ~(HasRecord(k) /\ HasReview(store[k], id)))
                      => k = event'.args.translationId]_vars

\* C15 witness: a review was just written, and a sentence without one remains
C15_Witness ==
    /\ Resolved("requestReview")
    /\ currentTranslation # Null
    /\ HasRecord(currentTranslation.id)
    /\ \E id \in SentenceIds : HasReview(store[currentTranslation.id], id)
    /\ Len(currentTranslation.sentences) = 2

\* No two sentences of the translation have the same id
UniqueIds(translation) ==
    \A i, j \in 1..Len(translation.sentences) :
        translation.sentences[i].id = translation.sentences[j].id => i = j

\* C16 -- in every reachable state, in every stored record, list entry and
\* currentTranslation, no two sentences share an id, whatever the order and
\* overlap of createTranslation, addSentence, deleteSentence, updateSentence
\* and review completions.
C16_SentenceIdsUnique ==
    \A t \in KnownTranslations : UniqueIds(t)

\* C16 witness: an addSentence completed on a list of at least two sentences
\* while another addSentence is still awaiting the store
C16_Witness ==
    /\ Resolved("addSentence")
    /\ currentTranslation # Null
    /\ Len(currentTranslation.sentences) >= 2
    /\ \E i \in 1..Len(requests) :
          "origin" \in DOMAIN requests[i] /\ requests[i].origin = "addSentence"

\* C17 -- over every step, each stored record has its key as id (so ids are
\* unique among stored records), and a record that stays stored keeps its id
\* and createdAt and has an updatedAt that is not smaller than before.
C17_RecordIdentityAndTimes ==
    [][/\ \A k \in DOMAIN store' : store'[k].id = k
       /\ \A k \in DOMAIN store \cap DOMAIN store' :
             /\ store'[k].id = store[k].id
             /\ store'[k].createdAt = store[k].createdAt
             /\ store'[k].updatedAt >= store[k].updatedAt]_vars

\* C17 witness: a record was just renamed at a later time than it was created
C17_Witness ==
    /\ Resolved("renameTranslation")
    /\ HasRecord(event.args.id)
    /\ store[event.args.id].updatedAt > store[event.args.id].createdAt
    /\ store[event.args.id].title = event.args.newTitle

\* ============================================================ text functions
\* The functions of the text path, applied to texts drawn from small sets.
MaxText == 5

TextChars == {"a", ".", "?", " "}

\* "Hello world. How are you? I am fine!"
HelloText ==
    <<"H", "e", "l", "l", "o", " ", "w", "o", "r", "l", "d", ".", " ",
      "H", "o", "w", " ", "a", "r", "e", " ", "y", "o", "u", "?", " ",
      "I", " ", "a", "m", " ", "f", "i", "n", "e", "!">>

Texts ==
    UNION {[1..n -> TextChars] : n \in 0..MaxText} \cup {HelloText}

\* [.!?]
Terminators == {".", "!", "?"}

\* The end of the whitespace run that starts at i
RECURSIVE RunEnd(_, _)
RunEnd(text, i) ==
    IF i < Len(text) /\ text[i + 1] \in Whitespace THEN RunEnd(text, i + 1) ELSE i

\* (mutant) every whitespace run separates two pieces
RECURSIVE SplitAtAnyWhitespace(_, _, _)
SplitAtAnyWhitespace(text, i, piece) ==
    IF i > Len(text) THEN <<piece>>
    ELSE IF text[i] \in Whitespace
         THEN <<piece>> \o SplitAtAnyWhitespace(text, RunEnd(text, i) + 1, <<>>)
         ELSE SplitAtAnyWhitespace(text, i + 1, Append(piece, text[i]))

\* text.split(/(?<=[.!?])\s+/): a whitespace run separates two pieces when the
\* character before it is '.', '!' or '?'
RECURSIVE SplitAfterPunctuation(_, _, _)
SplitAfterPunctuation(text, i, piece) ==
    IF i > Len(text) THEN <<piece>>
    ELSE IF text[i] \in Whitespace /\ i > 1 /\ text[i - 1] \in Terminators
         THEN <<piece>> \o SplitAfterPunctuation(text, RunEnd(text, i) + 1, <<>>)
         ELSE SplitAfterPunctuation(text, i + 1, Append(piece, text[i]))

\* String.prototype.trim()
RECURSIVE Trim(_)
Trim(s) ==
    IF s = <<>> THEN s
    ELSE IF s[1] \in Whitespace THEN Trim(Tail(s))
    ELSE IF s[Len(s)] \in Whitespace THEN Trim(SubSeq(s, 1, Len(s) - 1))
    ELSE s

NonEmpty(s) == Len(s) > 0

\* Array.prototype.map over a sequence
TrimAll(pieces) == [k \in 1..Len(pieces) |-> Trim(pieces[k])]

\* split(...).map(s => s.trim()).filter(s => s.length > 0)
splitIntoSentences(text) ==
    SelectSeq(TrimAll(SplitAfterPunctuation(text, 1, <<>>)), NonEmpty)

\* The rest of the variables of a step that only computes a text function
TextFrame ==
    UNCHANGED <<store, nextKey, clock, apiKey, translations, currentTranslation,
                isLoading, isInitialized, reviewSentenceId, isReviewLoading,
                reviewError, opening, requests, fetches, calls, serial>>

\* A text is at hand and no function has been applied to it yet
Typed(text) == event = EvArgs("text", "typed", [text |-> text])

\* splitIntoSentences(text)
SplitsText(text) ==
    /\ Typed(text)
    /\ event' = EvArgs("splitIntoSentences", "returned",
                       [text |-> text, value |-> splitIntoSentences(text)])
    /\ TextFrame

\* The characters of a text that are not whitespace, in order
NonWhitespace(s) == SelectSeq(s, LAMBDA c : c \notin Whitespace)

RECURSIVE Concat(_)
Concat(pieces) ==
    IF pieces = <<>> THEN <<>> ELSE pieces[1] \o Concat(Tail(pieces))

\* Somewhere in s a whitespace character directly follows '.', '!' or '?'
HasCutPoint(s) ==
    \E i \in 2..Len(s) : s[i] \in Whitespace /\ s[i - 1] \in Terminators

\* C19 -- the result of splitIntoSentences holds the text's characters in
\* order, cut exactly at the whitespace runs that directly follow '.', '!'
\* or '?': every piece is trimmed and not empty, every piece but the last
\* ends in '.', '!' or '?', no piece holds a further cut point, and "Hello
\* world. How are you? I am fine!" gives its three sentences.
C19_SplitIntoSentences ==
    event.op = "splitIntoSentences" =>
        LET text == event.args.text
            value == event.args.value
        IN /\ \A k \in 1..Len(value) :
                 /\ value[k] # <<>>
                 /\ Trim(value[k]) = value[k]
                 /\ ~HasCutPoint(value[k])
                 /\ k < Len(value) => value[k][Len(value[k])] \in Terminators
           /\ NonWhitespace(Concat(value)) = NonWhitespace(text)
           /\ ~HasCutPoint(Trim(text)) => value = SelectSeq(<<Trim(text)>>, NonEmpty)
           /\ text = HelloText =>
                 value = << SubSeq(HelloText, 1, 12), SubSeq(HelloText, 14, 25),
                            SubSeq(HelloText, 27, 36) >>

\* C19 witness: a text with whitespace at both ends that is cut in two
C19_Witness ==
    /\ event.op = "splitIntoSentences"
    /\ Len(event.args.value) = 2
    /\ Len(event.args.text) = MaxText
    /\ event.args.text[1] \in Whitespace
    /\ event.args.text[MaxText] \in Whitespace

MaxTitleText == 11

\* Texts long enough to hold more than five words
LongTexts == UNION {[1..n -> {"a", " "}] : n \in (MaxText + 1)..MaxTitleText}

\* What the text dialog submits: emit('submit', text.value.trim()), enabled
\* when the trimmed text is not empty
SubmittedTexts == {t \in Texts \cup LongTexts : t # <<>> /\ Trim(t) = t}

\* handleTextSubmit(text): the sentence list it makes and the title
\* createTranslation derives from it (none when no sentence is found)
SubmitsText(text) ==
    /\ Typed(text)
    /\ event' =
          LET sentences == splitIntoSentences(text)
          IN EvArgs("handleTextSubmit", "returned",
                [text |-> text,
                 sentences |-> sentences,
                 title |-> IF sentences = <<>> THEN <<>>
                           ELSE NewTranslation(text, sentences).title])
    /\ TextFrame

\* The whitespace-delimited words of a text
Words(s) == SelectSeq(SplitWhitespace(s), NonEmpty)

\* The first five words, with an ellipsis when there are more
FiveWords(s) ==
    IF Len(Words(s)) > TitleWords
    THEN JoinSpace(SubSeq(Words(s), 1, TitleWords)) \o <<".", ".", ".">>
    ELSE JoinSpace(Words(s))

\* C18 -- the title createTranslation derives for a submitted text is the
\* first five whitespace-delimited words of the first sentence, with an
\* ellipsis if and only if that sentence has more than five words, and it is
\* not empty.
C18_TitleOfFirstSentence ==
    (event.op = "handleTextSubmit" /\ event.args.sentences # <<>>) =>
        /\ event.args.title = FiveWords(event.args.sentences[1])
        /\ event.args.title # <<>>

\* --------------------------------------------------------- renderMarkdown
\* A text is a sequence of characters; the HTML the renderer returns is one
\* too, its tags and entities spelled out character by character.
MaxMarkdown == 3

\* Stands for the backquote, which a string of this language cannot hold
Backquote == "^"

MarkdownChars == {"<", ">", "&", "*", "#", "-", Backquote, " ", "a", "\n"}

\* Longer texts: bold around '<', a list of two items, a heading and a
\* quoted line, a paragraph break, code around '>'
MarkdownSamples ==
    { <<"*", "*", "<", "*", "*">>,
      <<"-", " ", "<", "\n", "-", " ", "&">>,
      <<"#", " ", "&", "\n", ">", " ", ">">>,
      <<"<", "\n", "\n", ">">>,
      <<"a", Backquote, ">", Backquote>> }

Markdowns ==
    UNION {[1..n -> MarkdownChars] : n \in 0..MaxMarkdown} \cup MarkdownSamples

Tag(name) == <<"<">> \o name \o <<">">>

CloseTag(name) == <<"<", "/">> \o name \o <<">">>

Heading(n) == <<"h", n>>

Blockquote == <<"b", "l", "o", "c", "k", "q", "u", "o", "t", "e">>

Strong == <<"s", "t", "r", "o", "n", "g">>

Em == <<"e", "m">>

Code == <<"c", "o", "d", "e">>

Li == <<"l", "i">>

Ul == <<"u", "l">>

Paragraph == <<"p">>

Br == <<"b", "r">>

Amp == <<"&", "a", "m", "p", ";">>

Lt == <<"&", "l", "t", ";">>

Gt == <<"&", "g", "t", ";">>

\* s has pat at position i
StartsAt(s, i, pat) ==
    /\ i >= 1
    /\ i + Len(pat) - 1 <= Len(s)
    /\ SubSeq(s, i, i + Len(pat) - 1) = pat

\* s.replace(/pat/g, rep) for a literal pat
RECURSIVE ReplaceFrom(_, _, _, _)
ReplaceFrom(s, i, pat, rep) ==
    IF i > Len(s) THEN <<>>
    ELSE IF StartsAt(s, i, pat)
         THEN rep \o ReplaceFrom(s, i + Len(pat), pat, rep)
         ELSE <<s[i]>> \o ReplaceFrom(s, i + 1, pat, rep)

ReplaceAll(s, pat, rep) == ReplaceFrom(s, 1, pat, rep)

\* .replace(/&/g, '&amp;').replace(/</g, '&lt;').replace(/>/g, '&gt;')
Escape(s) ==
    ReplaceAll(ReplaceAll(ReplaceAll(s, <<"&">>, Amp), <<"<">>, Lt), <<">">>, Gt)

\* The lines of a text ('^' and '$' under the m flag; '.' stops at "\n")
RECURSIVE LinesFrom(_, _, _)
LinesFrom(s, i, line) ==
    IF i > Len(s) THEN <<line>>
    ELSE IF s[i] = "\n" THEN <<line>> \o LinesFrom(s, i + 1, <<>>)
    ELSE LinesFrom(s, i + 1, Append(line, s[i]))

Lines(s) == LinesFrom(s, 1, <<>>)

RECURSIVE JoinLines(_)
JoinLines(lines) ==
    IF Len(lines) = 0 THEN <<>>
    ELSE IF Len(lines) = 1 THEN lines[1]
    ELSE lines[1] \o <<"\n">> \o JoinLines(Tail(lines))

\* .replace(/^prefix(.+)$/gm, '<name>$1</name>') on one line
PrefixLine(line, prefix, name) ==
    IF StartsAt(line, 1, prefix) /\ Len(line) > Len(prefix)
    THEN Tag(name) \o SubSeq(line, Len(prefix) + 1, Len(line)) \o CloseTag(name)
    ELSE line

\* .replace(/^prefix(.+)$/gm, '<name>$1</name>')
ReplaceLines(s, prefix, name) ==
    LET lines == Lines(s)
    IN JoinLines([k \in 1..Len(lines) |-> PrefixLine(lines[k], prefix, name)])

\* '### ', '## ', '# ' in that order
Headers(s) ==
    ReplaceLines(ReplaceLines(ReplaceLines(s,
        <<"#", "#", "#", " ">>, Heading("3")),
        <<"#", "#", " ">>, Heading("2")),
        <<"#", " ">>, Heading("1"))

\* Where a pair opened at i can close: the nearest delimiter after at least
\* one character, none of them in 'stop'
Closers(s, i, delim, stop) ==
    {j \in (i + Len(delim) + 1)..Len(s) :
        /\ StartsAt(s, j, delim)
        /\ \A k \in (i + Len(delim))..(j - 1) : s[k] \notin stop}

\* .replace(/delim(.+?)delim/g, '<name>$1</name>'), resp. ([^`]+) for code
RECURSIVE PairsFrom(_, _, _, _, _)
PairsFrom(s, i, delim, stop, name) ==
    IF i > Len(s) THEN <<>>
    ELSE IF StartsAt(s, i, delim) /\ Closers(s, i, delim, stop) # {}
         THEN LET j == CHOOSE c \in Closers(s, i, delim, stop) :
                           \A d \in Closers(s, i, delim, stop) : c <= d
              IN Tag(name) \o SubSeq(s, i + Len(delim), j - 1) \o CloseTag(name)
                    \o PairsFrom(s, j + Len(delim), delim, stop, name)
         ELSE <<s[i]>> \o PairsFrom(s, i + 1, delim, stop, name)

\* bold, italics, inline code
Inline(s) ==
    PairsFrom(PairsFrom(PairsFrom(s, 1, <<"*", "*">>, {"\n"}, Strong),
                        1, <<"*">>, {"\n"}, Em),
              1, <<Backquote>>, {Backquote}, Code)

\* A line the bullet step made: '<li>' is produced only there, at the start of
\* a line, with its '</li>' at the end
IsItem(line) ==
    /\ StartsAt(line, 1, Tag(Li))
    /\ StartsAt(line, Len(line) - Len(CloseTag(Li)) + 1, CloseTag(Li))
    /\ Len(line) > Len(Tag(Li)) + Len(CloseTag(Li))

\* .replace(/(<li>.+<\/li>\n?)+/g, '<ul>$&</ul>'): each run of item lines,
\* the newline after its last line included, goes inside one <ul>
RECURSIVE WrapItems(_, _, _)
WrapItems(lines, k, inRun) ==
    IF k > Len(lines) THEN (IF inRun THEN CloseTag(Ul) ELSE <<>>)
    ELSE LET newline == IF k < Len(lines) THEN <<"\n">> ELSE <<>>
         IN IF IsItem(lines[k])
            THEN (IF inRun THEN <<>> ELSE Tag(Ul)) \o lines[k] \o newline
                    \o WrapItems(lines, k + 1, TRUE)
            ELSE (IF inRun THEN CloseTag(Ul) ELSE <<>>) \o lines[k] \o newline
                    \o WrapItems(lines, k + 1, FALSE)

\* '</h1>' .. '</h6>', '</blockquote>', '</ul>'
BlockClosers ==
    << CloseTag(Heading("1")), CloseTag(Heading("2")), CloseTag(Heading("3")),
       CloseTag(Heading("4")), CloseTag(Heading("5")), CloseTag(Heading("6")),
       CloseTag(Blockquote), CloseTag(Ul) >>

\* .replace(/<\/(h[1-6]|blockquote|ul)><br>/g, '</$1>')
RECURSIVE Unbreak(_, _)
Unbreak(s, k) ==
    IF k > Len(BlockClosers) THEN s
    ELSE Unbreak(ReplaceAll(s, BlockClosers[k] \o Tag(Br), BlockClosers[k]), k + 1)

\* The substitutions after the escaping, in the order of the chain
Markup(s) ==
    LET blocks == ReplaceLines(Headers(s), Gt \o <<" ">>, Blockquote)
        items == ReplaceLines(Inline(blocks), <<"-", " ">>, Li)
        lists == WrapItems(Lines(items), 1, FALSE)
        paragraphs == ReplaceAll(lists, <<"\n", "\n">>,
                                 CloseTag(Paragraph) \o Tag(Paragraph))
        breaks == ReplaceAll(paragraphs, <<"\n">>, Tag(Br))
    IN Unbreak(breaks, 1)

\* if (!html.startsWith('<h') && !html.startsWith('<ul') &&
\*     !html.startsWith('<blockquote')) html = '<p>' + html + '</p>'
WrapParagraph(html) ==
    IF \/ StartsAt(html, 1, <<"<", "h">>)
       \/ StartsAt(html, 1, <<"<">> \o Ul)
       \/ StartsAt(html, 1, <<"<">> \o Blockquote)
    THEN html
    ELSE Tag(Paragraph) \o html \o CloseTag(Paragraph)

\* (mutant) the tags are made first and the result is escaped
renderMarkdownEscapesLast(text) ==
    IF text = <<>> THEN <<>> ELSE WrapParagraph(Escape(Markup(text)))

\* renderMarkdown(text)
renderMarkdown(text) ==
    IF text = <<>> THEN <<>> ELSE WrapParagraph(Markup(Escape(text)))

\* renderMarkdown(reviewContent) in the sidebar's template
RendersReview(text) ==
    /\ Typed(text)
    /\ event' = EvArgs("renderMarkdown", "returned",
                       [text |-> text, value |-> renderMarkdown(text)])
    /\ TextFrame

\* The tags the renderer emits
EmittedNames ==
    {Heading("1"), Heading("2"), Heading("3"), Blockquote, Strong, Em, Code, Li,
     Ul, Paragraph, Br}

EmittedTags == {Tag(name) : name \in EmittedNames} \cup
               {CloseTag(name) : name \in EmittedNames}

\* How many times pat occurs in s
Count(s, pat) == Cardinality({i \in 1..Len(s) : StartsAt(s, i, pat)})

\* C20 -- in the HTML renderMarkdown returns, every '<' opens and every '>'
\* closes a tag the renderer emits, every '&' opens one of the entities
\* &amp; &lt; &gt;, and each '&', '<' and '>' of the input is there as its
\* entity (a '>' that opens a quoted line being turned into <blockquote>).
C20_EscapedBeforeMarkup ==
    event.op = "renderMarkdown" =>
        LET text == event.args.text
            html == event.args.value
        IN /\ \A i \in 1..Len(html) :
                 /\ html[i] = "<" => \E tag \in EmittedTags : StartsAt(html, i, tag)
                 /\ html[i] = ">" => \E tag \in EmittedTags :
                                        StartsAt(html, i - Len(tag) + 1, tag)
                 /\ html[i] = "&" => \E entity \in {Amp, Lt, Gt} :
                                        StartsAt(html, i, entity)
           /\ Count(html, Amp) = Count(text, <<"&">>)
           /\ Count(html, Lt) = Count(text, <<"<">>)
           /\ Count(html, Gt) + Count(html, Tag(Blockquote)) = Count(text, <<">">>)

\* C20 witness: a text with '<' between bold marks was rendered
C20_Witness ==
    /\ event.op = "renderMarkdown"
    /\ event.args.text = <<"*", "*", "<", "*", "*">>
    /\ event.args.value =
          Tag(Paragraph) \o Tag(Strong) \o Lt \o CloseTag(Strong) \o CloseTag(Paragraph)

\* Nothing stored, nothing in flight, and a text at hand
InitText ==
    /\ Idle
    /\ apiKey = TRUE
    /\ serial = TRUE
    /\ store = [k \in {} |-> Null]
    /\ nextKey = 1
    /\ translations = <<>>
    /\ currentTranslation = Null
    /\ isInitialized = FALSE
    /\ \E text \in Texts \cup LongTexts \cup Markdowns : Typed(text)

NextText ==
    \/ \E text \in Texts : SplitsText(text)
    \/ \E text \in SubmittedTexts : SubmitsText(text)
    \/ \E text \in Markdowns : RendersReview(text)

\* The text functions on their own
SpecText == InitText /\ [][NextText]_vars

\* ====================================================== overlapping calls
\* The step completes the store write of a call of 'op' (the put succeeded)
Completes(op) ==
    /\ event'.op = op
    /\ event'.result = "resolved"
    /\ requests' # requests

\* The english and dutch values of the sentences of a list, by sentence id
FieldValues(sentences) ==
    {<<sentences[i].id, f, sentences[i][f]>> : i \in 1..Len(sentences), f \in Fields}

\* C21 -- when the store write of an updateSentence call completes, the edits
\* of the other sentences that the stored record held are still there, in the
\* stored record and in currentTranslation: two overlapping updateSentence
\* calls for different sentences both take effect.
C21_BothEditsKept ==
    [][(Completes("updateSentence") /\ currentTranslation' # Null
            /\ HasRecord(currentTranslation'.id))
          => LET id == currentTranslation'.id
                 kept == {v \in FieldValues(store[id].sentences) :
                             v[1] # event'.args.sentenceId}
             IN /\ kept \subseteq FieldValues(store'[id].sentences)
                /\ kept \subseteq FieldValues(currentTranslation'.sentences)]_vars

\* The functions that write to the store
WritingOps ==
    {"createTranslation", "updateSentence", "addSentence", "deleteSentence",
     "requestReview", "renameTranslation", "removeTranslation"}

\* The step is the failure of a store request of one of these functions
\* (request.onerror, or NotFound from updateTranslation)
StoreFails ==
    /\ requests' # requests
    /\ event'.result = "rejected"
    /\ event'.op \in WritingOps

\* C22 -- when a store operation fails during createTranslation,
\* updateCurrentTranslation, renameTranslation or removeTranslation (NotFound
\* from update included), the failing step ends the call without a further
\* store request and changes neither the stored records nor translations nor
\* currentTranslation; with calls made one after another, neither do the
\* steps of the call before it, so all three are as they were before the call.
C22_FailureChangesNothing ==
    [][/\ StoreFails
          => /\ UNCHANGED <<store, nextKey, translations, currentTranslation>>
             /\ Len(requests') = Len(requests) - 1
       /\ (serial /\ (\E op \in WritingOps \ {"requestReview"} : IsCall(op)))
          => UNCHANGED <<store, nextKey, translations, currentTranslation>>
       /\ (serial /\ event'.op = "updateTranslation")
          => UNCHANGED <<store, nextKey, translations, currentTranslation>>]_vars

\* C22 witness: the rename of an absent id was just rejected with NotFound
\* while another translation is stored, listed and current
C22_Witness ==
    /\ event.op = "renameTranslation"
    /\ event.result = "rejected"
    /\ \E id \in TranslationIds :
          ~HasRecord(id) /\ event.args.message = TranslationNotFound(id)
    /\ nextKey = 2
    /\ currentTranslation # Null
    /\ HasRecord(currentTranslation.id)
    /\ Len(translations) = 1

\* The ids of the sentences of a list
IdsOf(sentences) == {sentences[i].id : i \in 1..Len(sentences)}

\* The list is 'before' with exactly one blank sentence put in: its id is one
\* more than the largest id of 'before' (1 when 'before' is empty), it comes
\* right after the sentence afterId, or last when there is no such sentence,
\* and the rest of the list is 'before'
IsAddResult(sentences, before, afterId) ==
    /\ Len(sentences) = Len(before) + 1
    /\ \E p \in 1..Len(sentences) :
          /\ sentences[p].english = <<>>
          /\ sentences[p].dutch = <<>>
          /\ DOMAIN sentences[p] = {"id", "english", "dutch"}
          /\ sentences[p].id >= 1
          /\ sentences[p].id \notin IdsOf(before)
          /\ \A id \in IdsOf(before) : sentences[p].id > id
          /\ \A n \in 1..(sentences[p].id - 1) :
                n \in IdsOf(before) \/ \E id \in IdsOf(before) : id > n
          /\ \A i \in 1..(p - 1) : sentences[i] = before[i]
          /\ \A i \in (p + 1)..Len(sentences) : sentences[i] = before[i - 1]
          /\ IF afterId \in IdsOf(before)
             THEN p > 1 /\ before[p - 1].id = afterId
             ELSE p = Len(sentences)

\* C23 -- when addSentence(afterId) completes, the sentence list of
\* currentTranslation and of the stored record is the list the call found
\* with exactly one blank sentence of id (maximum id, or 0) + 1 inserted right
\* after the sentence afterId, or at the end when afterId is none or not
\* found; the other sentences keep ids, contents and order.
C23_AddInsertsOne ==
    Resolved("addSentence") =>
        /\ currentTranslation # Null
        /\ IsAddResult(currentTranslation.sentences, event.args.before,
                       event.args.afterId)
        /\ HasRecord(currentTranslation.id)
        /\ store[currentTranslation.id].sentences = currentTranslation.sentences

\* C23 witness: a sentence was just added after the first of two sentences
C23_Witness ==
    /\ Resolved("addSentence")
    /\ Len(event.args.before) = 2
    /\ event.args.afterId = event.args.before[1].id
    /\ currentTranslation # Null
    /\ Len(currentTranslation.sentences) = 3

\* The record 'new' is the record 'old' with this title and a later or equal
\* updatedAt, every other field as it was
Retitled(old, new, title) ==
    /\ DOMAIN new = DOMAIN old
    /\ \A k \in DOMAIN old \ {"title", "updatedAt"} : new[k] = old[k]
    /\ new.title = title
    /\ new.updatedAt >= old.updatedAt

\* C24 -- with calls made one after another, the completion of
\* renameTranslation(id, newTitle) changes only the title and updatedAt of
\* that record: in the store, in its entry of translations (which keeps its
\* position, every other entry unchanged) and in currentTranslation, which
\* is replaced if and only if it is the renamed record.
C24_RenameFrame ==
    [][Completes("renameTranslation")
          => LET id == event'.args.id
                 title == event'.args.newTitle
             IN /\ DOMAIN store' = DOMAIN store
                /\ \A k \in DOMAIN store :
                      IF k = id THEN Retitled(store[k], store'[k], title)
                      ELSE store'[k] = store[k]
                /\ Len(translations') = Len(translations)
                /\ \A i \in 1..Len(translations) :
                      IF translations[i].id = id
                      THEN Retitled(translations[i], translations'[i], title)
                      ELSE translations'[i] = translations[i]
                /\ IF currentTranslation # Null /\ currentTranslation.id = id
                   THEN /\ currentTranslation' # Null
                        /\ Retitled(currentTranslation, currentTranslation', title)
                   ELSE currentTranslation' = currentTranslation]_vars

\* C24 witness: the second of two listed translations was just renamed and
\* the current translation is the other one
C24_Witness ==
    /\ Resolved("renameTranslation")
    /\ Len(translations) = 2
    /\ translations[2].id = event.args.id
    /\ translations[2].title = event.args.newTitle
    /\ translations[1].title # event.args.newTitle
    /\ currentTranslation = translations[1]

\* ======================================================== review context
\* requestReview on sentence lists long enough to have more than three
\* sentences on either side of the target.
MaxContext == 9

MaxBlankKinds == 5   \* lists up to this length also try '' next to ' '

\* The text of the sentence at position i, when it has one
TextAt(i) == <<ToString(i)>>

\* The english column of a list of n sentences: each entry is its own text or
\* blank; short lists try both kinds of blank
Columns(n) ==
    [1..n -> {0, 1} \cup (IF n <= MaxBlankKinds THEN {2} ELSE {})]

EnglishAt(i, kind) ==
    IF kind = 1 THEN TextAt(i) ELSE IF kind = 0 THEN <<" ">> ELSE <<>>

\* Ids in document order, or in the opposite order (rows added at the top)
ContextSentences(n, column, ascending) ==
    [i \in 1..n |-> [id |-> IF ascending THEN i ELSE n + 1 - i,
                     english |-> EnglishAt(i, column[i]),
                     dutch |-> <<"d">>]]

\* An open translation of up to MaxContext sentences with the review
\* sidebar open on one of its rows, API key configured.
InitContext ==
    /\ clock = 1
    /\ apiKey = TRUE
    /\ isLoading = FALSE
    /\ isInitialized = TRUE
    /\ isReviewLoading = FALSE
    /\ reviewError = NoError
    /\ opening = 0
    /\ requests = <<>>
    /\ fetches = <<>>
    /\ calls = 0
    /\ serial = FALSE
    /\ nextKey = 2
    /\ \E n \in 1..MaxContext : \E column \in Columns(n) : \E ascending \in BOOLEAN :
          LET saved == [id |-> 1, title |-> <<"t">>, originalText |-> <<"t">>,
                        sentences |-> ContextSentences(n, column, ascending),
                        createdAt |-> 1, updatedAt |-> 1]
          IN /\ store = [k \in {1} |-> saved]
             /\ translations = <<saved>>
             /\ currentTranslation = saved
             /\ reviewSentenceId \in 1..n
    /\ event = Ev("openReview", "returned")

NextContext ==
    \/ requestReview
    \/ \E k \in 1..Len(fetches) : reviewTranslationFails(k)

SpecContext == InitContext /\ [][NextContext]_vars

\* The non-blank english texts of positions lo..hi, in document order
RECURSIVE TextsBetween(_, _, _)
TextsBetween(sentences, lo, hi) ==
    IF lo > hi THEN <<>>
    ELSE (IF \E c \in 1..Len(sentences[lo].english) :
                sentences[lo].english[c] # " "
          THEN <<sentences[lo].english>> ELSE <<>>)
         \o TextsBetween(sentences, lo + 1, hi)

\* The position of the sentence a review call was made for
TargetOf(fetch) ==
    CHOOSE p \in 1..Len(currentTranslation.sentences) :
        currentTranslation.sentences[p].id = fetch.sentenceId

\* C25 -- the context sent with a review request is, in document order, the
\* non-blank english texts of the at most 3 sentences right before the target
\* and of the at most 3 right after it: never the target itself, never more
\* than 3 entries on a side, no blank entry.
C25_ContextWindow ==
    \A k \in 1..Len(fetches) :
        LET sentences == currentTranslation.sentences
            p == TargetOf(fetches[k])
            from == IF p - 3 < 1 THEN 1 ELSE p - 3
            to == IF p + 3 > Len(sentences) THEN Len(sentences) ELSE p + 3
        IN /\ fetches[k].before = TextsBetween(sentences, from, p - 1)
           /\ fetches[k].after = TextsBetween(sentences, p + 1, to)
           /\ Len(fetches[k].before) <= 3
           /\ Len(fetches[k].after) <= 3
           /\ \A i \in 1..Len(fetches[k].before) :
                 /\ fetches[k].before[i] \notin {<<>>, <<" ">>}
                 /\ fetches[k].before[i] # TextAt(p)
           /\ \A i \in 1..Len(fetches[k].after) :
                 /\ fetches[k].after[i] \notin {<<>>, <<" ">>}
                 /\ fetches[k].after[i] # TextAt(p)

\* C25 witness: a request in flight for a sentence with more than three
\* sentences on both sides, a blank one among the three before it
C25_Witness ==
    \E k \in 1..Len(fetches) :
        /\ TargetOf(fetches[k]) > 4
        /\ TargetOf(fetches[k]) + 4 <= Len(currentTranslation.sentences)
        /\ Len(fetches[k].before) = 2
        /\ Len(fetches[k].after) = 3

\* ================================================================ progress
\* The review sidebar and the calls that can overlap a review request: the
\* row or the translation under review is deleted, the translation is closed,
\* another translation is opened.
NextReview ==
    \/ \E id \in SentenceIds : openReview(id)
    \/ closeReview
    \/ requestReview
    \/ \E id \in SentenceIds : deleteSentence(id)
    \/ \E id \in TranslationIds : removeTranslation(id)
    \/ clearCurrentTranslation
    \/ \E id \in TranslationIds : loadTranslation(id)
    \/ \E i \in 1..Len(requests) : loadTranslationResolves(i)
    \/ \E i \in 1..Len(requests) : updateTranslationReads(i)
    \/ \E i \in 1..Len(requests) : updateCurrentTranslationResolves(i)
    \/ \E i \in 1..Len(requests) : removeTranslationResolves(i)
    \/ \E i \in 1..Len(requests) : requestRejects(i)
    \/ \E k \in 1..Len(fetches) : reviewTranslationFails(k)
    \/ \E k \in 1..Len(fetches), c \in ReviewContents : reviewTranslationSucceeds(k, c)

\* The steps the environment takes: the database or the network answers a
\* request that is waiting
Completion ==
    \/ \E i \in 1..Len(requests) : loadTranslationResolves(i)
    \/ \E i \in 1..Len(requests) : updateTranslationReads(i)
    \/ \E i \in 1..Len(requests) : updateCurrentTranslationResolves(i)
    \/ \E i \in 1..Len(requests) : removeTranslationResolves(i)
    \/ \E i \in 1..Len(requests) : requestRejects(i)
    \/ \E k \in 1..Len(fetches) : reviewTranslationFails(k)
    \/ \E k \in 1..Len(fetches), c \in ReviewContents : reviewTranslationSucceeds(k, c)

\* Calls may overlap, from an open translation; every request that is waiting
\* is answered in the end, with success or with failure
SpecReviewLive == InitOpened /\ [][NextReview]_vars /\ WF_vars(Completion)

\* C26 -- provided the network call and the store requests are answered in
\* the end, whenever isReviewLoading is true it is false again later, on
\* every path of requestReview (review success, review failure, store
\* failure, sentence no longer present).
C26_LoadingEnds == isReviewLoading ~> ~isReviewLoading

\* C26 witness: the store write of a review has just failed and loading is off
C26_Witness ==
    /\ event = EvArgs("requestReview", "rejected", [message |-> StoreError])
    /\ isReviewLoading = FALSE
    /\ reviewSentenceId # 0
    /\ reviewError = StoreError
    /\ Pending = 0

\* ======================================================= two translations
\* The state two createTranslation calls leave behind on a fresh
\* installation: two records, the second one current and first in the list.
TwoCreated ==
    /\ Idle
    /\ isInitialized = FALSE
    /\ nextKey = 3
    /\ \E s1, s2 \in {sub \in Submissions : Len(sub.sentences) > 0} :
          LET first == Spread(SaveData(NewTranslation(s1.text, s1.sentences), 1),
                              [id |-> 1])
              second == Spread(SaveData(NewTranslation(s2.text, s2.sentences), 1),
                               [id |-> 2])
          IN /\ store = [k \in {1, 2} |-> IF k = 1 THEN first ELSE second]
             /\ translations = <<second, first>>
             /\ currentTranslation = second
             /\ event = [op |-> "createTranslation", result |-> "resolved",
                         args |-> s2]

InitTwoCreated == TwoCreated /\ serial = FALSE

\* Calls may overlap, with two translations stored
SpecTwoCreated == InitTwoCreated /\ [][NextReview]_vars

\* C27 -- a review response is only ever written to the translation it was
\* requested for: no sentence of a translation carries a review that was
\* requested for a sentence of another translation, also when that other
\* translation was loaded before the response arrived.
C27_ReviewOnRequestedTranslation ==
    \A t \in KnownTranslations : \A s \in Reviewed(t) :
        s.aiReview.prompt.translationId = t.id

\* The key was handed out and its record is gone: removeTranslation(id) has
\* completed (keys are never handed out twice)
Removed(id) == id < nextKey /\ ~HasRecord(id)

\* C28 -- once removeTranslation(id) has completed the record stays removed:
\* no step puts a record under that id into the store again, and no step
\* makes a record of that id the current translation.
C28_RemovedStaysRemoved ==
    [][\A id \in TranslationIds :
          Removed(id)
             => /\ id \notin DOMAIN store'
                /\ (currentTranslation' # Null /\ currentTranslation'.id = id)
                      => currentTranslation' = currentTranslation]_vars

\* C29 -- a translation that is current stays the current one until the next
\* loadTranslation, createTranslation, clearCurrentTranslation or
\* removeTranslation of it: the late completion of an update that was started
\* while another translation was current does not put that one back.
C29_CurrentStaysLoaded ==
    [][(CurrentId # 0 /\ CurrentId' # CurrentId)
          => \/ event'.op \in {"loadTranslation", "createTranslation",
                               "clearCurrentTranslation"}
             \/ /\ event'.op = "removeTranslation"
                /\ event'.result = "resolved"
                /\ event'.args.id = CurrentId]_vars

\* A review call for the sentence the sidebar is open on is awaiting the
\* network
OpenReviewInFlight ==
    /\ reviewSentenceId # 0
    /\ \E k \in 1..Len(fetches) :
          /\ fetches[k].sentenceId = reviewSentenceId
          /\ fetches[k].translationId = CurrentId

\* C30 -- in every reachable state in which a review request for the open
\* sentence is in flight, isReviewLoading is true: the completion of an
\* earlier request does not switch it off while a newer one is pending.
C30_LoadingWhileInFlight == OpenReviewInFlight => isReviewLoading

====
